---- MODULE Spec2Model ----
(***************************************************************************)
(* A model of sass-importer-json (src/src/index.ts): the importer's two    *)
(* hooks, canonicalize and load, with the helpers they call.               *)
(*                                                                         *)
(* Text is a sequence of one-character strings, so that escaping, regular  *)
(* expression matching and extension splitting work on characters as the   *)
(* code's do.  A file-system path is the sequence of its segments (each a  *)
(* text); the reference written in a stylesheet is a text that join splits *)
(* at "/" and normalises.                                                  *)
(***************************************************************************)
EXTENDS Integers, Sequences, FiniteSets, TLC

VARIABLES
    files,   \* the paths statSync reports as regular files
    dirs,    \* the paths statSync reports as directories
    call,    \* the hook call the host compiler made last, with its arguments
    ret,     \* what that call returned or threw
    probes,  \* the disambiguation steps that call ran, in order: <<dir, name>>
    extensions  \* the `extensions` option the importer was constructed with

vars == <<files, dirs, call, ret, probes, extensions>>

----------------------------------------------------------------------------
(* Bounds of the model *)

\* at most this many regular files exist at once
MaxFiles == 2
\* the longest text handed to stringToScssLiteral on its own
MaxStrLen == 3
\* the longest list, and the most top-level keys, of a parsed value
MaxLen == 2

----------------------------------------------------------------------------
(* Text helpers *)

RECURSIVE Flatten(_)
\* the concatenation of a sequence of sequences: Array.prototype.flat / join('')
Flatten(ss) == IF ss = <<>> THEN <<>> ELSE Head(ss) \o Flatten(Tail(ss))

RECURSIVE JoinWith(_, _)
\* Array.prototype.join(sep) on a sequence of texts
JoinWith(ss, sep) ==
    IF ss = <<>> THEN <<>>
    ELSE IF Len(ss) = 1 THEN ss[1]
    ELSE ss[1] \o sep \o JoinWith(Tail(ss), sep)

----------------------------------------------------------------------------
(* node:path, on segment sequences *)

RECURSIVE SplitFrom(_, _, _)
SplitFrom(str, i, cur) ==
    IF i > Len(str) THEN <<cur>>
    ELSE IF str[i] = "/" THEN <<cur>> \o SplitFrom(str, i + 1, <<>>)
    ELSE SplitFrom(str, i + 1, Append(cur, str[i]))

\* the segments of a path text, split at "/"
SplitPath(str) == SplitFrom(str, 1, <<>>)

RECURSIVE NormalizeFrom(_, _)
NormalizeFrom(segs, acc) ==
    IF segs = <<>> THEN acc
    ELSE LET s == Head(segs) IN
         IF s = <<>> \/ s = <<".">> THEN NormalizeFrom(Tail(segs), acc)
         ELSE IF s = <<".", ".">>
              THEN NormalizeFrom(Tail(segs),
                                 IF acc = <<>> THEN acc ELSE SubSeq(acc, 1, Len(acc) - 1))
              ELSE NormalizeFrom(Tail(segs), Append(acc, s))

\* path.join(base, rel) for an absolute base: concatenate, then drop empty and
\* "." segments and resolve ".." against the segment before it
join(base, rel) == NormalizeFrom(base \o SplitPath(rel), <<>>)

\* path.dirname
dirname(path) == SubSeq(path, 1, Len(path) - 1)

\* path.basename
basename(path) == path[Len(path)]

\* path.extname: from the last "." of the base name to its end; empty when there
\* is no ".", when the only "." is the first character, and for ".."
extname(path) ==
    LET base == basename(path)
        dots == {i \in 1..Len(base) : base[i] = "."}
    IN  IF dots = {} THEN <<>>
        ELSE LET d == CHOOSE i \in dots : \A j \in dots : j <= i IN
             IF d = 1 \/ base = <<".", ".">> THEN <<>>
             ELSE SubSeq(base, d, Len(base))

----------------------------------------------------------------------------
(* File-system probes *)

\* statSync(path).isFile(), false when stat throws
fileExists(path) == path \in files

\* statSync(path).isDirectory(), false when stat throws
dirExists(path) == path \in dirs

----------------------------------------------------------------------------
(* resolveImportPath *)

\* the three outcomes of a resolution step
NullResult == [kind |-> "null", path |-> <<>>, matches |-> <<>>]
PathResult(p) == [kind |-> "path", path |-> p, matches |-> <<>>]
\* throw new Error(`Multiple matches: ${existing.join(', ')}`)
MultipleMatches(existing) == [kind |-> "error", path |-> <<>>, matches |-> existing]

\* the text of a string literal of the code
ImportSuffix == <<".", "i", "m", "p", "o", "r", "t">>
IndexName == <<"i", "n", "d", "e", "x">>

\* extsOf with the reference's extension ignored
extsAlwaysAll(originalExt, knownExts) == knownExts

\* the extensions one resolution looks for
extsOf(originalExt, knownExts) ==
    IF originalExt # <<>> /\ \E i \in 1..Len(knownExts) : knownExts[i] = originalExt
    THEN <<originalExt>>
    ELSE knownExts

\* the candidate paths of one disambiguation step, in the order flatMap lists them
candidates(exts, dir, name) ==
    Flatten([i \in 1..Len(exts) |->
                <<join(dir, <<"_">> \o name \o exts[i]), join(dir, name \o exts[i])>>])

\* disambiguate without the ambiguity error: the first existing candidate wins
disambiguateFirstMatch(exts, dir, name) ==
    LET existing == SelectSeq(candidates(exts, dir, name), fileExists)
    IN  IF existing = <<>> THEN NullResult ELSE PathResult(existing[1])

disambiguate(exts, dir, name) ==
    LET existing == SelectSeq(candidates(exts, dir, name), fileExists)
    IN  IF Len(existing) > 1 THEN MultipleMatches(existing)
        ELSE IF existing = <<>> THEN NullResult
        ELSE PathResult(existing[1])

\* a ?? b, with the steps each side ran; b is evaluated only when a is null, and a
\* throw in a leaves b unevaluated
Coalesce(a, b) ==
    IF a.out.kind = "null"
    THEN [out |-> b.out, steps |-> a.steps \o b.steps]
    ELSE a

\* a step that was not run
Skipped == [out |-> NullResult, steps |-> <<>>]

\* one run of disambiguate, recorded
Step(exts, dir, name) ==
    [out |-> disambiguate(exts, dir, name), steps |-> <<<<dir, name>>>>]

\* indexStep without the test that the reference had no extension
indexStepAnyExt(exts, path, originalExt, fromImport) ==
    IF dirExists(path)
    THEN Coalesce(IF fromImport THEN Step(exts, path, IndexName \o ImportSuffix)
                                ELSE Skipped,
                  Step(exts, path, IndexName))
    ELSE Skipped

\* the directory-index operand of the ?? chain
indexStep(exts, path, originalExt, fromImport) ==
    IF originalExt = <<>> /\ dirExists(path)
    THEN Coalesce(IF fromImport THEN Step(exts, path, IndexName \o ImportSuffix)
                                ELSE Skipped,
                  Step(exts, path, IndexName))
    ELSE Skipped

\* nameOf with the extension left on the name
nameKeepsExt(base, originalExt) == base

\* base.substring(0, base.length - originalExt.length)
nameOf(base, originalExt) == SubSeq(base, 1, Len(base) - Len(originalExt))

\* resolveImportPath with the plain name tried before the .import name
resolvePlainFirst(path, knownExts, fromImport) ==
    LET dir == dirname(path)
        base == basename(path)
        originalExt == extname(path)
        name == nameOf(base, originalExt)
        exts == extsOf(originalExt, knownExts)
    IN  Coalesce(Step(exts, dir, name),
        Coalesce(IF fromImport THEN Step(exts, dir, name \o ImportSuffix) ELSE Skipped,
                 indexStep(exts, path, originalExt, fromImport)))

resolveImportPath(path, knownExts, fromImport) ==
    LET dir == dirname(path)
        base == basename(path)
        originalExt == extname(path)
        name == nameOf(base, originalExt)
        exts == extsOf(originalExt, knownExts)
    IN  Coalesce(IF fromImport THEN Step(exts, dir, name \o ImportSuffix) ELSE Skipped,
        Coalesce(Step(exts, dir, name),
                 indexStep(exts, path, originalExt, fromImport)))

----------------------------------------------------------------------------
(* canonicalize *)

\* the ways a containing URL can be given in the importer's context
NoUrl == [present |-> FALSE, protocol |-> "", pathname |-> <<>>]
Url(protocol, pathname) == [present |-> TRUE, protocol |-> protocol, pathname |-> pathname]

\* new URL(`file://${resolvedPath}`)
FileUrl(p) == [kind |-> "url", path |-> p, matches |-> <<>>]

\* canonicalize without the test of the containing URL's scheme
canonicalizeAnyScheme(path, context) ==
    IF ~context.containingUrl.present
    THEN Skipped
    ELSE LET absolutePath == join(dirname(context.containingUrl.pathname), path)
             resolved == resolveImportPath(absolutePath, extensions, context.fromImport)
         IN  IF resolved.out.kind = "path"
             THEN [out |-> FileUrl(resolved.out.path), steps |-> resolved.steps]
             ELSE resolved

canonicalize(path, context) ==
    IF ~context.containingUrl.present \/ context.containingUrl.protocol # "file:"
    THEN Skipped
    ELSE LET absolutePath == join(dirname(context.containingUrl.pathname), path)
             resolved == resolveImportPath(absolutePath, extensions, context.fromImport)
         IN  IF resolved.out.kind = "path"
             THEN [out |-> FileUrl(resolved.out.path), steps |-> resolved.steps]
             ELSE resolved

----------------------------------------------------------------------------
(* Parsed values: what `parse` hands to load.  t is the value's typeof; k tells *)
(* null, arrays and plain objects apart, and the finite numbers from NaN and    *)
(* the infinities; an object's entries are keys[i], items[i] in the order       *)
(* Object.entries lists them.                                                   *)

Val(t, k, b, n, s, keys, items) ==
    [t |-> t, k |-> k, b |-> b, n |-> n, s |-> s, keys |-> keys, items |-> items]

Null == Val("object", "null", FALSE, 0, <<>>, <<>>, <<>>)
Bool(b) == Val("boolean", "", b, 0, <<>>, <<>>, <<>>)
Num(n) == Val("number", "finite", FALSE, n, <<>>, <<>>, <<>>)
NonFinite(k) == Val("number", k, FALSE, 0, <<>>, <<>>, <<>>)
Str(s) == Val("string", "", FALSE, 0, s, <<>>, <<>>)
List(items) == Val("object", "array", FALSE, 0, <<>>, <<>>, items)
Dict(keys, items) == Val("object", "dict", FALSE, 0, <<>>, keys, items)
\* values whose typeof is none of boolean, string, number, object
Other(t) == Val(t, "", FALSE, 0, <<>>, <<>>, <<>>)

----------------------------------------------------------------------------
(* stringToScssLiteral *)

\* String.prototype.replace(/c/g, rep) for a one-character pattern
ReplaceAll(str, c, rep) ==
    Flatten([i \in 1..Len(str) |-> IF str[i] = c THEN rep ELSE <<str[i]>>])

\* The third replacement is written '\a ' in the source.  \a is no escape
\* sequence of a JavaScript string literal, so the literal denotes the two
\* characters "a" and " ".
stringToScssLiteral(str) ==
    <<"\"">>
        \o ReplaceAll(ReplaceAll(ReplaceAll(str, "\\", <<"\\", "\\">>),
                                 "\"", <<"\\", "\"">>),
                      "\n", <<"a", " ">>)
        \o <<"\"">>

----------------------------------------------------------------------------
(* jsonToScssInner *)

DigitChars == <<"0", "1", "2", "3", "4", "5", "6", "7", "8", "9">>

RECURSIVE natToString(_)
natToString(n) ==
    IF n < 10 THEN <<DigitChars[n + 1]>>
    ELSE natToString(n \div 10) \o <<DigitChars[(n % 10) + 1]>>

\* Number.prototype.toString(10), for the integers and the non-finite numbers
numberToString(v) ==
    IF v.k = "NaN" THEN <<"N", "a", "N">>
    ELSE IF v.k = "Infinity" THEN <<"I", "n", "f", "i", "n", "i", "t", "y">>
    ELSE IF v.k = "-Infinity" THEN <<"-", "I", "n", "f", "i", "n", "i", "t", "y">>
    ELSE IF v.n < 0 THEN <<"-">> \o natToString(-v.n)
    ELSE natToString(v.n)

\* a returned text, and throw new Error('Invalid JSON value')
Returned(text) == [ok |-> TRUE, text |-> text]
InvalidJsonValue == [ok |-> FALSE, text |-> <<>>]

CommaSpace == <<",", " ">>
ColonSpace == <<":", " ">>

\* anyThrew looking at the first element only
firstThrew(inner) == inner # <<>> /\ ~inner[1].ok

\* a throw inside the callback of value.map / Object.entries(value).map ends the
\* map: the enclosing call throws what the callback threw
anyThrew(inner) == \E i \in 1..Len(inner) : ~inner[i].ok

RECURSIVE jsonToScssInner(_)
jsonToScssInner(value) ==
    IF value.t = "boolean"
    THEN Returned(IF value.b THEN <<"t", "r", "u", "e">> ELSE <<"f", "a", "l", "s", "e">>)
    ELSE IF value.t = "string" THEN Returned(stringToScssLiteral(value.s))
    ELSE IF value.t = "number" THEN Returned(numberToString(value))
    ELSE IF value.t = "object"
    THEN IF value.k = "null" THEN Returned(<<"n", "u", "l", "l">>)
         ELSE LET inner == [i \in 1..Len(value.items) |-> jsonToScssInner(value.items[i])]
              IN  IF anyThrew(inner) THEN InvalidJsonValue
                  ELSE IF value.k = "array"
                  THEN Returned(<<"[">>
                                  \o JoinWith([i \in 1..Len(inner) |-> inner[i].text],
                                              CommaSpace)
                                  \o <<"]">>)
                  ELSE Returned(<<"(">>
                                  \o JoinWith([i \in 1..Len(inner) |->
                                                  stringToScssLiteral(value.keys[i])
                                                      \o ColonSpace \o inner[i].text],
                                              CommaSpace)
                                  \o <<")">>)
    ELSE InvalidJsonValue

----------------------------------------------------------------------------
(* sassVariableIdentifierRegExp *)

AsciiLetters ==
    {"a", "b", "c", "d", "e", "f", "g", "h", "i", "j", "k", "l", "m",
     "n", "o", "p", "q", "r", "s", "t", "u", "v", "w", "x", "y", "z",
     "A", "B", "C", "D", "E", "F", "G", "H", "I", "J", "K", "L", "M",
     "N", "O", "P", "Q", "R", "S", "T", "U", "V", "W", "X", "Y", "Z"}
AsciiDigits == {"0", "1", "2", "3", "4", "5", "6", "7", "8", "9"}
\* characters of the range \u0080-\uFFFF, each written as one token
ExtendedChars == {"U+00E9"}

\* [_a-zA-Z\u0080-\uFFFF]
identStart(c) == c = "_" \/ c \in AsciiLetters \/ c \in ExtendedChars

\* [-_a-zA-Z0-9\u0080-\uFFFF]
identPart(c) == c = "-" \/ c \in AsciiDigits \/ identStart(c)

\* key.match(sassVariableIdentifierRegExp) is not null.  The expression has no
\* ^ and no $: it matches when some substring of the key matches it.
matchesIdentifierRegExp(key) ==
    \E i \in 1..Len(key) :
        /\ identStart(key[i])
        /\ \E j \in i..Len(key) : \A m \in (i + 1)..j : identPart(key[m])

----------------------------------------------------------------------------
(* load *)

Loaded(contents) == [kind |-> "ok", syntax |-> "scss", contents |-> contents]
\* throw new Error('json file must contain a dict at the top level')
NotADict == [kind |-> "error", error |-> "not a dict", key |-> <<>>]
\* throw new Error(`"${key}" is not a valid variable name`)
InvalidName(key) == [kind |-> "error", error |-> "invalid variable name", key |-> key]
\* the error jsonToScssInner threw, passed on
InvalidValue == [kind |-> "error", error |-> "invalid json value", key |-> <<>>]

\* the callback of Object.entries(json).map: one declaration, or what it throws
declaration(key, value) ==
    IF ~matchesIdentifierRegExp(key) THEN InvalidName(key)
    ELSE LET literal == jsonToScssInner(value)
         IN  IF ~literal.ok THEN InvalidValue
             ELSE Loaded(<<"$">> \o key \o ColonSpace \o literal.text \o <<";", "\n">>)

\* load with the declarations joined last key first
loadLastFirst(json) ==
    IF json.t # "object" \/ json.k = "null" \/ json.k = "array" THEN NotADict
    ELSE LET decls == [i \in 1..Len(json.keys) |-> declaration(json.keys[i], json.items[i])]
             thrown == {i \in 1..Len(decls) : decls[i].kind = "error"}
         IN  IF thrown # {}
             THEN decls[CHOOSE i \in thrown : \A j \in thrown : i <= j]
             ELSE Loaded(Flatten([i \in 1..Len(decls) |->
                                     decls[Len(decls) + 1 - i].contents]))

load(json) ==
    IF json.t # "object" \/ json.k = "null" \/ json.k = "array" THEN NotADict
    ELSE LET decls == [i \in 1..Len(json.keys) |-> declaration(json.keys[i], json.items[i])]
             thrown == {i \in 1..Len(decls) : decls[i].kind = "error"}
         IN  IF thrown # {}
             THEN decls[CHOOSE i \in thrown : \A j \in thrown : i <= j]
             ELSE Loaded(Flatten([i \in 1..Len(decls) |-> decls[i].contents]))

----------------------------------------------------------------------------
(* The inputs the model draws from *)

Json == <<".", "j", "s", "o", "n">>
Jsonc == <<".", "j", "s", "o", "n", "c">>
Foo == <<"f", "o", "o">>
DotBar == <<".", "b", "a", "r">>

\* the `extensions` option: the default, and a list of two
ExtLists == {<<Json>>, <<Json, Jsonc>>}

\* the directory of the containing stylesheet, and the two directories a
\* reference of the model can name
BaseDir == <<<<"a">>>>
FooDir == Append(BaseDir, Foo)
BarDir == Append(BaseDir, Foo \o DotBar)
DirUniverse == {FooDir, BarDir}

\* context.containingUrl: absent (a stylesheet compiled from a string), remote, local
StylesheetPath == <<<<"a">>, <<"s", ".", "s", "c", "s", "s">>>>
ContainingUrls == {NoUrl, Url("https:", StylesheetPath), Url("file:", StylesheetPath)}

Contexts == [containingUrl : ContainingUrls, fromImport : BOOLEAN]

\* references as written in @use / @import: foo, foo.json, foo.bar, ./foo
References == {Foo, Foo \o Json, Foo \o DotBar, <<".", "/">> \o Foo}

\* the files that may exist: in the stylesheet's directory, in foo/ and in foo.bar/
Prefixes == {<<>>, <<"_">>}
BaseFiles ==
    {Append(BaseDir, p \o Foo \o e) : p \in Prefixes, e \in {Json, Jsonc}}
        \cup {Append(BaseDir, p \o Foo \o ImportSuffix \o Json) : p \in Prefixes}
        \cup {Append(BaseDir, Foo \o DotBar \o Json)}
IndexFiles ==
    {Append(FooDir, p \o IndexName \o s \o Json) : p \in Prefixes, s \in {<<>>, ImportSuffix}}
        \cup {Append(FooDir, IndexName \o Jsonc), Append(BarDir, IndexName \o Json)}
FileUniverse == BaseFiles \cup IndexFiles

\* all sequences over S of length at most n
SeqsUpTo(S, n) == UNION {[1..m -> S] : m \in 0..n}

\* texts: every text of at most MaxStrLen characters over the characters the
\* escaping treats specially and one it does not, and the text a"b\c
TextAlphabet == {"a", "\"", "\\", "\n"}
QuoteBackslashText == <<"a", "\"", "b", "\\", "c">>
Texts == SeqsUpTo(TextAlphabet, MaxStrLen) \cup {QuoteBackslashText}

\* values without children
Leaves ==
    {Null, Bool(TRUE), Bool(FALSE), Num(0), Num(1), Num(42), Num(-7),
     NonFinite("NaN"), NonFinite("Infinity"), NonFinite("-Infinity"),
     Str(<<"a">>), Str(QuoteBackslashText), Other("undefined"), Other("bigint")}
FewLeaves == {Num(1), Str(<<"a">>), NonFinite("NaN"), Other("undefined")}

\* keys of nested objects: any text is a key
InnerKeys == {<<"k">>, <<"1", "\"">>}
Lists == {List(items) : items \in SeqsUpTo(Leaves, MaxLen)}
Dicts ==
    {Dict(keys, items) : keys \in {ks \in SeqsUpTo(InnerKeys, MaxLen) :
                                      \A i, j \in 1..Len(ks) : i # j => ks[i] # ks[j]},
                         items \in SeqsUpTo(FewLeaves, MaxLen)}
\* Dicts pairs every key list with every item list: keep the well-formed ones
WellFormedDicts == {d \in Dicts : Len(d.keys) = Len(d.items)}
Level1 == {List(<<x>>) : x \in FewLeaves} \cup {Dict(<<<<"k">>>>, <<x>>) : x \in FewLeaves}
Level2 == {List(<<Num(1), x>>) : x \in Level1} \cup {Dict(<<<<"k">>>>, <<x>>) : x \in Level1}
Values ==
    Leaves \cup {Str(s) : s \in Texts} \cup Lists \cup WellFormedDicts
        \cup Level1 \cup Level2

\* top-level keys: a, 1bad, _ok-2, - and (U+00E9)1
TopKeys ==
    {<<"a">>, <<"1", "b", "a", "d">>, <<"_", "o", "k", "-", "2">>, <<"-">>,
     <<"U+00E9", "1">>}
TopValues ==
    {Num(1), Str(<<"a">>), List(<<Num(1), Str(<<"a">>)>>), NonFinite("NaN"),
     Other("undefined"), Dict(<<<<"k">>>>, <<Other("bigint")>>)}
TopDicts ==
    {d \in {Dict(keys, items) : keys \in SeqsUpTo(TopKeys, MaxLen),
                                items \in SeqsUpTo(TopValues, MaxLen)} :
        /\ Len(d.keys) = Len(d.items)
        /\ \A i, j \in 1..Len(d.keys) : i # j => d.keys[i] # d.keys[j]}
\* what `parse` can hand to load
Parsed == TopDicts \cup Leaves \cup Level1

----------------------------------------------------------------------------
(* The state machine *)

NoCall == [op |-> "none"]
NoRet == [kind |-> "none"]

Init ==
    /\ extensions \in ExtLists
    /\ files = {}
    /\ dirs = {}
    /\ call = NoCall
    /\ ret = NoRet
    /\ probes = <<>>

\* The hooks are synchronous: a call runs to its end before the host compiler,
\* or anything else of the model, takes another step.  call, ret and probes hold
\* the call that has just returned until the host takes the result.
Idle == call = NoCall

\* the host compiler takes what the hook returned or threw
Return ==
    /\ ~Idle
    /\ call' = NoCall
    /\ ret' = NoRet
    /\ probes' = <<>>
    /\ UNCHANGED <<files, dirs, extensions>>

WriteFile(p) ==
    /\ Idle
    /\ p \notin files
    /\ Cardinality(files) < MaxFiles
    /\ dirname(p) = BaseDir \/ dirname(p) \in dirs
    /\ files' = files \cup {p}
    /\ UNCHANGED <<dirs, call, ret, probes, extensions>>

Unlink(p) ==
    /\ Idle
    /\ p \in files
    /\ files' = files \ {p}
    /\ UNCHANGED <<dirs, call, ret, probes, extensions>>

Mkdir(d) ==
    /\ Idle
    /\ d \notin dirs
    /\ dirs' = dirs \cup {d}
    /\ UNCHANGED <<files, call, ret, probes, extensions>>

Rmdir(d) ==
    /\ Idle
    /\ d \in dirs
    /\ \A p \in files : dirname(p) # d
    /\ dirs' = dirs \ {d}
    /\ UNCHANGED <<files, call, ret, probes, extensions>>

Canonicalize(path, context) ==
    /\ Idle
    /\ call' = [op |-> "canonicalize", path |-> path, context |-> context]
    /\ ret' = canonicalize(path, context).out
    /\ probes' = canonicalize(path, context).steps
    /\ UNCHANGED <<files, dirs, extensions>>

Translate(value) ==
    /\ Idle
    /\ call' = [op |-> "jsonToScssInner", value |-> value]
    /\ ret' = jsonToScssInner(value)
    /\ UNCHANGED <<files, dirs, probes, extensions>>

Load(json) ==
    /\ Idle
    /\ call' = [op |-> "load", json |-> json]
    /\ ret' = load(json)
    /\ UNCHANGED <<files, dirs, probes, extensions>>

NextResolve ==
    \/ \E p \in FileUniverse : WriteFile(p)
    \/ \E p \in FileUniverse : Unlink(p)
    \/ \E d \in DirUniverse : Mkdir(d)
    \/ \E d \in DirUniverse : Rmdir(d)
    \/ \E path \in References, context \in Contexts : Canonicalize(path, context)
    \/ Return

NextLoad ==
    \/ \E value \in Values : Translate(value)
    \/ \E json \in Parsed : Load(json)
    \/ Return

Next == NextResolve \/ NextLoad

\* the whole importer
Spec == Init /\ [][Next]_vars
\* canonicalize against a changing file system
SpecResolve == Init /\ [][NextResolve]_vars
\* load and the translator
SpecLoad == Init /\ [][NextLoad]_vars

----------------------------------------------------------------------------
(* Properties of canonicalize, checked under SpecResolve *)

Range(seq) == {seq[i] : i \in 1..Len(seq)}

\* the call that has just returned is a canonicalize from a local stylesheet
LocalCall ==
    /\ call.op = "canonicalize"
    /\ call.context.containingUrl.present
    /\ call.context.containingUrl.protocol = "file:"

\* Facts about the references of the model, read off their text: whether the
\* reference has an extension, the extensions its resolution may look for, and the
\* directory of its exact name.  Every reference has the stem foo and lies in
\* the stylesheet's directory.
RefHasExt == call.path \in {Foo \o Json, Foo \o DotBar}
RefExts == IF call.path = Foo \o Json THEN <<Json>> ELSE extensions
RefNamedDir ==
    IF call.path = Foo \o Json THEN Append(BaseDir, Foo \o Json)
    ELSE IF call.path = Foo \o DotBar THEN BarDir
    ELSE FooDir

\* the existing regular files among _<name><ext> and <name><ext> in dir
ExistingFor(exts, dir, name) ==
    {Append(dir, p \o name \o e) : p \in Prefixes, e \in Range(exts)} \cap files

ExistingAt(k) == ExistingFor(RefExts, probes[k][1], probes[k][2])

File(dir, name) == Append(dir, name)

\* C3: one disambiguation step yields nothing when no candidate exists, the
\* candidate when exactly one exists, and throws naming all existing candidates
\* when two or more exist; a throwing step is the last step of its resolution and
\* its error is the resolution's outcome.
C3_Disambiguation ==
    /\ Idle =>
         \A exts \in {<<Json>>, <<Jsonc>>, <<Json, Jsonc>>, <<Jsonc, Json>>},
            dir \in {BaseDir, FooDir, BarDir},
            name \in {Foo, Foo \o ImportSuffix, IndexName, IndexName \o ImportSuffix} :
              LET found == ExistingFor(exts, dir, name)
                  r == disambiguate(exts, dir, name)
              IN  /\ found = {} => r = NullResult
                  /\ Cardinality(found) = 1 => r.kind = "path" /\ r.path \in found
                  /\ Cardinality(found) >= 2 =>
                        r.kind = "error" /\ Range(r.matches) = found
    /\ LocalCall =>
         \A k \in 1..Len(probes) :
              Cardinality(ExistingAt(k)) >= 2 =>
                  /\ k = Len(probes)
                  /\ ret.kind = "error"
                  /\ Range(ret.matches) = ExistingAt(k)

\* foo resolved with foo.json and _foo.json both present: the first step throws
\* naming both, and the directory foo/ is never looked into
C3_Witness ==
    /\ LocalCall
    /\ call.path = Foo
    /\ ~call.context.fromImport
    /\ FooDir \in dirs
    /\ ret.kind = "error"
    /\ Range(ret.matches) = {File(BaseDir, Foo \o Json), File(BaseDir, <<"_">> \o Foo \o Json)}
    /\ probes = <<<<BaseDir, Foo>>>>

\* the steps a resolution runs when every one of them finds nothing
AllSteps ==
    (IF call.context.fromImport THEN <<<<BaseDir, Foo \o ImportSuffix>>>> ELSE <<>>)
        \o <<<<BaseDir, Foo>>>>
        \o (IF ~RefHasExt /\ RefNamedDir \in dirs
            THEN (IF call.context.fromImport
                  THEN <<<<RefNamedDir, IndexName \o ImportSuffix>>>> ELSE <<>>)
                     \o <<<<RefNamedDir, IndexName>>>>
            ELSE <<>>)

\* C4: the steps run in the order .import name (legacy imports only), plain name,
\* directory index; every step before the last found nothing; a step that finds
\* a file ends the resolution with that file; null comes only after every step
\* found nothing.
C4_FirstSuccessWins ==
    LocalCall =>
        /\ probes # <<>>
        /\ Len(probes) <= Len(AllSteps)
        /\ probes = SubSeq(AllSteps, 1, Len(probes))
        /\ \A k \in 1..(Len(probes) - 1) : ExistingAt(k) = {}
        /\ ret.kind = "url" => ExistingAt(Len(probes)) = {ret.path}
        /\ ret.kind = "null" => probes = AllSteps /\ ExistingAt(Len(probes)) = {}
        /\ ret.kind \in {"url", "null", "error"}
        /\ ~call.context.fromImport =>
              \A k \in 1..Len(probes) : probes[k][2] \in {Foo, IndexName}
        /\ ( /\ call.path = Foo
             /\ call.context.fromImport
             /\ files = {File(BaseDir, Foo \o ImportSuffix \o Json), File(BaseDir, Foo \o Json)} )
           => ret = FileUrl(File(BaseDir, Foo \o ImportSuffix \o Json))
        /\ ( /\ call.path = Foo
             /\ ~call.context.fromImport
             /\ files = {File(BaseDir, Foo \o ImportSuffix \o Json)} )
           => ret = NullResult

\* a legacy import of foo with foo.import.json and foo.json present
C4_Witness ==
    /\ LocalCall
    /\ call.path = Foo
    /\ call.context.fromImport
    /\ files = {File(BaseDir, Foo \o ImportSuffix \o Json), File(BaseDir, Foo \o Json)}
    /\ ret = FileUrl(File(BaseDir, Foo \o ImportSuffix \o Json))
    /\ probes = <<<<BaseDir, Foo \o ImportSuffix>>>>

\* C5: with the containing URL absent or not of the file: scheme, canonicalize
\* returns null, throws nothing and probes nothing, whatever the file system holds.
C5_NotClaimedOffDisk ==
    ( /\ call.op = "canonicalize"
      /\ ~call.context.containingUrl.present \/ call.context.containingUrl.protocol # "file:" )
    => ret = NullResult /\ probes = <<>>

\* a remote stylesheet's reference that a local stylesheet's would find ambiguous
C5_Witness ==
    /\ call.op = "canonicalize"
    /\ call.context.containingUrl.present
    /\ call.context.containingUrl.protocol = "https:"
    /\ resolveImportPath(join(BaseDir, call.path), extensions,
                         call.context.fromImport).out.kind = "error"
    /\ ret = NullResult

\* the candidates of the reference foo.json: .json files of stem foo
JsonCandidates ==
    {File(BaseDir, p \o Foo \o s \o Json) : p \in Prefixes, s \in {<<>>, ImportSuffix}}

\* C6: a reference with a known extension is resolved among the files of that
\* extension alone; any other reference among the files of every known extension.
C6_KnownExtensionOnly ==
    LocalCall =>
        /\ call.path = Foo \o Json =>
              /\ ret.kind = "url" => ret.path \in JsonCandidates
              /\ ret.kind = "error" => Range(ret.matches) \subseteq JsonCandidates
              /\ files \cap JsonCandidates = {} => ret = NullResult
              /\ files = {File(BaseDir, Foo \o Jsonc)} => ret = NullResult
              /\ files = {File(BaseDir, Foo \o Json), File(BaseDir, Foo \o Jsonc)}
                    => ret = FileUrl(File(BaseDir, Foo \o Json))
        /\ call.path # Foo \o Json =>
              /\ \A k \in 1..(Len(probes) - 1) :
                    ExistingFor(extensions, probes[k][1], probes[k][2]) = {}
              /\ LET found == ExistingFor(extensions, probes[Len(probes)][1],
                                          probes[Len(probes)][2])
                 IN  /\ ret.kind = "null" => found = {}
                     /\ ret.kind = "url" => found = {ret.path}
                     /\ ret.kind = "error" => found = Range(ret.matches)

\* foo.json resolved with foo.json and foo.jsonc both present and both known
C6_Witness ==
    /\ LocalCall
    /\ call.path = Foo \o Json
    /\ extensions = <<Json, Jsonc>>
    /\ files = {File(BaseDir, Foo \o Json), File(BaseDir, Foo \o Jsonc)}
    /\ ret = FileUrl(File(BaseDir, Foo \o Json))

\* the steps of the call that looked into a directory other than the reference's own
IndexProbes == {k \in 1..Len(probes) : probes[k][1] # BaseDir}

\* C7: the directory index is looked for exactly when the .import and plain
\* steps found nothing, the reference has no extension and a directory of its
\* exact name exists; then index.import is tried first for a legacy import, and
\* index when the import is not a legacy one or index.import found nothing.
C7_DirectoryIndex ==
    LocalCall =>
        /\ IndexProbes # {} <=>
              /\ call.context.fromImport =>
                    ExistingFor(RefExts, BaseDir, Foo \o ImportSuffix) = {}
              /\ ExistingFor(RefExts, BaseDir, Foo) = {}
              /\ ~RefHasExt
              /\ RefNamedDir \in dirs
        /\ \A k \in IndexProbes : probes[k][1] = RefNamedDir
        /\ (IndexProbes # {} /\ call.context.fromImport) =>
              /\ \E k \in IndexProbes :
                    /\ probes[k][2] = IndexName \o ImportSuffix
                    /\ \A j \in IndexProbes : k <= j
              /\ (\E k \in IndexProbes : probes[k][2] = IndexName)
                    <=> ExistingFor(RefExts, RefNamedDir, IndexName \o ImportSuffix) = {}
        /\ (IndexProbes # {} /\ ~call.context.fromImport) =>
              \A k \in IndexProbes : probes[k][2] = IndexName /\ k = Len(probes)
        /\ (RefHasExt /\ ret.kind = "url") => dirname(ret.path) = BaseDir
        /\ ( /\ call.path = Foo
             /\ FooDir \in dirs
             /\ files = {File(FooDir, <<"_">> \o IndexName \o Json)} )
           => ret = FileUrl(File(FooDir, <<"_">> \o IndexName \o Json))

\* foo resolved to foo/_index.json
C7_Witness ==
    /\ LocalCall
    /\ call.path = Foo
    /\ files = {File(FooDir, <<"_">> \o IndexName \o Json)}
    /\ ret = FileUrl(File(FooDir, <<"_">> \o IndexName \o Json))

\* C10: the name candidates are built from is the reference's base name without
\* its final extension, known or not; what canonicalize returns is an existing
\* regular file named [_]foo[.import]<ext> in the stylesheet's directory or
\* [_]index[.import]<ext> in the directory the reference names, <ext> known.
C10_ResultForm ==
    LocalCall =>
        /\ \A k \in 1..Len(probes) :
              probes[k][1] = BaseDir => probes[k][2] \in {Foo, Foo \o ImportSuffix}
        /\ ret.kind = "url" =>
              /\ ret.path \in files
              /\ \/ ret.path \in
                      {File(BaseDir, p \o Foo \o s \o e) :
                          p \in Prefixes, s \in {<<>>, ImportSuffix}, e \in Range(extensions)}
                 \/ /\ ~RefHasExt
                    /\ ret.path \in
                         {File(RefNamedDir, p \o IndexName \o s \o e) :
                             p \in Prefixes, s \in {<<>>, ImportSuffix}, e \in Range(extensions)}

\* foo.bar resolved to foo.json while foo.bar.json exists
C10_Witness ==
    /\ LocalCall
    /\ call.path = Foo \o DotBar
    /\ files = {File(BaseDir, Foo \o DotBar \o Json), File(BaseDir, Foo \o Json)}
    /\ ret = FileUrl(File(BaseDir, Foo \o Json))

----------------------------------------------------------------------------
(* Properties of load and the translator, checked under SpecLoad *)

\* the identifier grammar applied to the whole key
FullIdentifier(key) ==
    /\ key # <<>>
    /\ identStart(key[1])
    /\ \A i \in 2..Len(key) : identPart(key[i])

RECURSIVE JsonShaped(_)
\* a value of the shapes null, boolean, finite number, text, list, string-keyed map
JsonShaped(v) ==
    \/ v.t \in {"boolean", "string"}
    \/ v.t = "number" /\ v.k = "finite"
    \/ v.t = "object" /\ \A i \in 1..Len(v.items) : JsonShaped(v.items[i])

RECURSIVE HasOtherType(_)
\* the value, or a value inside it at any depth, has a typeof other than
\* boolean, string, number and object
HasOtherType(v) ==
    \/ v.t \notin {"boolean", "string", "number", "object"}
    \/ \E i \in 1..Len(v.items) : HasOtherType(v.items[i])

IsDict(v) == v.t = "object" /\ v.k = "dict"

\* C1 (as claimed): a top-level map with a key that is not an identifier as a
\* whole makes load throw the invalid-variable-name error naming such a key.
\* Stated for maps whose values are all of the JSON shapes, so that the naming
\* error is the only one load could raise.
C1_InvalidKeyRejected ==
    ( /\ call.op = "load"
      /\ IsDict(call.json)
      /\ \A i \in 1..Len(call.json.items) : JsonShaped(call.json.items[i])
      /\ \E i \in 1..Len(call.json.keys) : ~FullIdentifier(call.json.keys[i]) )
    => /\ ret.kind = "error"
       /\ ret.error = "invalid variable name"
       /\ ret.key \in Range(call.json.keys)
       /\ ~FullIdentifier(ret.key)

\* the escaping of one character as the claim states it
ClaimedEscape(c) ==
    IF c = "\\" THEN <<"\\", "\\">>
    ELSE IF c = "\"" THEN <<"\\", "\"">>
    ELSE IF c = "\n" THEN <<"\\", "a", " ">>
    ELSE <<c>>

\* C2 (as claimed): a text translates to a double quote, the text with every
\* backslash doubled, every double quote preceded by a backslash and every
\* newline replaced by backslash, a, space, and a closing double quote; so the
\* literal holds no raw newline.
C2_StringLiteral ==
    (call.op = "jsonToScssInner" /\ call.value.t = "string")
    => /\ ret.ok
       /\ ret.text = <<"\"">>
                        \o Flatten([i \in 1..Len(call.value.s) |->
                                       ClaimedEscape(call.value.s[i])])
                        \o <<"\"">>

RECURSIVE DeclarationLines(_, _)
\* one line `$<key>: <literal>;` and a newline per key, in key order
DeclarationLines(keys, items) ==
    IF keys = <<>> THEN <<>>
    ELSE <<"$">> \o Head(keys) \o <<":", " ">> \o jsonToScssInner(Head(items)).text
            \o <<";", "\n">> \o DeclarationLines(Tail(keys), Tail(items))

\* C8: load throws the top-level error for anything but a map; for a map whose
\* keys are all identifiers and whose values are all of the JSON shapes it
\* returns syntax scss and one declaration line per key, in key order.
C8_LoadResult ==
    call.op = "load" =>
        /\ ~IsDict(call.json) => ret.kind = "error" /\ ret.error = "not a dict"
        /\ ( /\ IsDict(call.json)
             /\ \A i \in 1..Len(call.json.keys) : FullIdentifier(call.json.keys[i])
             /\ \A i \in 1..Len(call.json.items) : JsonShaped(call.json.items[i]) )
           => /\ ret.kind = "ok"
              /\ ret.syntax = "scss"
              /\ ret.contents = DeclarationLines(call.json.keys, call.json.items)
        /\ call.json = Dict(<<<<"a">>>>, <<Num(1)>>)
              => ret.contents = <<"$", "a", ":", " ", "1", ";", "\n">>
        /\ call.json = Dict(<<>>, <<>>) => ret.kind = "ok" /\ ret.contents = <<>>

\* a map of two keys loaded, the declarations in key order
C8_Witness ==
    /\ call.op = "load"
    /\ call.json = Dict(<<<<"_", "o", "k", "-", "2">>, <<"a">>>>, <<Str(<<"a">>), Num(1)>>)
    /\ ret.kind = "ok"
    /\ ret.contents = <<"$", "_", "o", "k", "-", "2", ":", " ", "\"", "a", "\"", ";", "\n",
                        "$", "a", ":", " ", "1", ";", "\n">>

\* C9 (as claimed): every value outside the JSON shapes, the non-finite numbers
\* among them, makes the translator throw.
C9_OutsideJsonThrows ==
    (call.op = "jsonToScssInner" /\ ~JsonShaped(call.value)) => ~ret.ok

\* C9 (amended): the translator throws exactly for the values that hold, at any
\* depth, a value whose typeof is none of boolean, string, number, object; the
\* non-finite numbers translate to NaN, Infinity and -Infinity; inside load the
\* throw becomes load's outcome and no contents are returned.
C9_OtherTypesThrow ==
    /\ call.op = "jsonToScssInner" =>
          /\ ~ret.ok <=> HasOtherType(call.value)
          /\ call.value = NonFinite("NaN") => ret.text = <<"N", "a", "N">>
          /\ call.value = NonFinite("Infinity")
                => ret.text = <<"I", "n", "f", "i", "n", "i", "t", "y">>
          /\ call.value = NonFinite("-Infinity")
                => ret.text = <<"-", "I", "n", "f", "i", "n", "i", "t", "y">>
    /\ ( /\ call.op = "load"
         /\ IsDict(call.json)
         /\ \E i \in 1..Len(call.json.items) : HasOtherType(call.json.items[i]) )
       => /\ ret.kind = "error"
          /\ (\A i \in 1..Len(call.json.keys) : FullIdentifier(call.json.keys[i]))
                => ret.error = "invalid json value"

\* undefined two lists deep, after a translatable element
C9_Witness ==
    /\ call.op = "jsonToScssInner"
    /\ call.value = List(<<Num(1), List(<<Other("undefined")>>)>>)
    /\ ~ret.ok

====
